---- MODULE Spec2Model ----
(***************************************************************************)
(* Workflow orchestration core of the content pipeline:                    *)
(*   - EnhancementOrchestrator (start, runResearch, runStructure,          *)
(*     runFactCheck, finalize) over the AGENT_STATE key/value store and    *)
(*     the ENHANCEMENT_QUEUE;                                              *)
(*   - the two `queue` batch consumers of the repository (the worker that  *)
(*     dispatches by message type, and the one that only acknowledges).    *)
(* Every await of the source is a separate step, so that invocations       *)
(* interleave exactly where the JavaScript event loop lets them.           *)
(***************************************************************************)
EXTENDS Integers, Sequences, FiniteSets, TLC

(* ------------------------------ bounds -------------------------------- *)
\* workflow ids 1..NumIds; id 0 stands for an absent notionPageId
\* (the key `workflow:undefined`)
NumIds == 1
\* distinct input tuples (videoUrl, category, section, tags) offered to start
NumInputs == 2
\* concurrent invocations of orchestrator methods
NumProcs == 2
\* POST /enhance requests reaching the deployed worker
MaxRequests == 1
\* direct calls of start()
MaxStarts == 2
\* direct calls of the stage methods that get past their prompt
MaxInvokes == 4
\* messages waiting on the queues that producers outside the orchestrator sent
MaxExternal == 2
\* messages per batch handed to the consumer
MaxBatch == 2
\* batches handed to the consumer
MaxDeliveries == 2
\* calls of the stage methods made one after the other
MaxTurns == 6
\* sources in the discovery configuration
MaxSources == 2
\* items the listings of a configuration hold, all sources together
MaxItems == 2
\* discovery sweeps (DiscoveryAgent instances) in one behaviour
NumSweeps == 2
\* length of the native ids tried against the dedup key of every source kind
MaxIdLen == 2
\* calls of POST /publish
MaxPublishes == 3
\* stage invocations made on a workflow that is under way
MaxStageCalls == 2

(* ------------------------- program constants -------------------------- *)
\* message.retry({ delaySeconds: 60 })
RetryDelay == 60

Ids == 0..NumIds
WorkflowIds == 1..NumIds
Inputs == 1..NumInputs
Procs == 1..NumProcs

\* the message types the worker's switch names, in the order of its cases
StageTypes == {"research", "structure", "factcheck", "finalize"}
KnownTypes == StageTypes \cup {"publish", "refresh", "crosspost"}
\* a type tag no case of the switch names
UnknownType == "unknown"
MsgTypes == KnownTypes \cup {UnknownType}
Msgs == [type : MsgTypes, id : Ids]
Msg(t, i) == [type |-> t, id |-> i]

\* the keys of state.agents the stage methods write
AgentKeys == {"research", "structure", "factcheck", "final"}
NoAgents == [k \in AgentKeys |-> 0]

\* AGENT_STATE.get of a key never written: JSON.parse(null) is null
Null == [status |-> "null"]

\* the methods class EnhancementOrchestrator defines
OrchestratorMethods ==
    {"callGemini", "start", "runResearch", "runStructure", "runFactCheck", "finalize"}

\* the method that handles a stage type
StageMethod(s) ==
    CASE s = "research" -> "runResearch"
      [] s = "structure" -> "runStructure"
      [] s = "factcheck" -> "runFactCheck"
      [] s = "finalize" -> "finalize"

\* state.agents.<key> written by the stage method
AgentKey(s) ==
    CASE s = "research" -> "research"
      [] s = "structure" -> "structure"
      [] s = "factcheck" -> "factcheck"
      [] s = "finalize" -> "final"

\* state.status assigned by the stage method
StatusSet(s) ==
    CASE s = "research" -> "structuring"
      [] s = "structure" -> "factchecking"
      [] s = "factcheck" -> "finalizing"
      [] s = "finalize" -> "draft_ready"

\* the type of the message the stage method sends after its put ("" = none)
NextType(s) ==
    CASE s = "research" -> "structure"
      [] s = "structure" -> "factcheck"
      [] s = "factcheck" -> "finalize"
      [] s = "finalize" -> ""

\* the entries of state.agents the stage method's prompt template reads
PromptReads(s) ==
    CASE s = "research" -> {}
      [] s = "structure" -> {"research"}
      [] s = "factcheck" -> {"research", "structure"}
      [] s = "finalize" -> {"research", "structure", "factcheck"}

\* building the prompt throws a TypeError: state is null and a field of it is
\* read (finalize reads state.category), or state.agents.<k>.<field> is read
\* for a k that is not there
PromptThrows(s, st) ==
    \/ st = Null /\ (s = "finalize" \/ PromptReads(s) # {})
    \/ st # Null /\ \E k \in PromptReads(s) : st.agents[k] = 0

VARIABLES
    store,      \* AGENT_STATE: id -> WorkflowState or Null
    queue,      \* ENHANCEMENT_QUEUE and its sibling queues: message -> copies waiting
    proc,       \* the invocations of orchestrator methods, one record each
    pushes,     \* id -> number of drafts pushed to the workspace page
    batch,      \* the batch the consumer is working on
    consumer,   \* which `queue` export is deployed
    bpos,       \* index of the next message of the batch
    acks,       \* per batch position: calls of message.ack()
    retries,    \* per batch position: calls of message.retry()
    delays,     \* per batch position: delaySeconds of the retry (0 = none)
    outcome,    \* per batch position: "none", "ok" (handler returned), "threw"
    kvWrites,   \* CONTENT_KV keys written by handlers of the batch consumer
    published,  \* the publish() calls of POST /publish: [id, featured, end, cross]
    resultPuts, \* id -> agent key -> number of puts that carried a new result for it
    sends,      \* id -> message type -> number of sends by the orchestrator
    nStarts, nInvokes, nDeliveries

VARIABLES
    config,     \* channels_config and the listing each source answers with
    dedup,      \* CONTENT_KV dedup records: set of [key, score]
    sweep,      \* the discovery sweeps, one record per DiscoveryAgent instance
    lookups,    \* the [slot, kind, raw, key] of every isProcessed lookup made
    nScored,    \* <<source, position>> -> calls of scoreContent for that entry
    nEmitted,   \* <<source, position>> -> pages created for that entry
    lastDiscovery \* CONTENT_KV last_discovery: the report stored last

discVars == <<config, dedup, sweep, lookups, nScored, nEmitted, lastDiscovery>>

vars == <<store, queue, proc, pushes, batch, consumer, bpos, acks,
          retries, delays, outcome, kvWrites, published, resultPuts, sends,
          nStarts, nInvokes, nDeliveries, discVars>>

orchVars == <<store, proc, pushes, resultPuts, sends, nStarts, nInvokes>>
batchVars == <<batch, consumer, bpos, acks, retries, delays, outcome, nDeliveries,
               published>>

Idle == [pc |-> "idle", op |-> "", id |-> 0, inp |-> 0, snap |-> Null]

\* the invocation slot the runtime uses next (slots are interchangeable)
FreeProc(p) == proc[p].pc = "idle" /\ \A q \in Procs : q < p => proc[q].pc # "idle"

\* QUEUE.send(m)
Enqueue(q, m) == [q EXCEPT ![m] = @ + 1]

\* the queue contents that hold each message of sequence sq once per occurrence
BagOf(sq) == [m \in Msgs |-> Cardinality({k \in DOMAIN sq : sq[k] = m})]
\* a foreign message names workflow 1 or lacks its identifier
ExternalMsgs == {m \in Msgs : m.id \in {0, 1}}
ExternalQueues == {BagOf(sq) : sq \in UNION {[1..n -> ExternalMsgs] : n \in 0..MaxExternal}}

(* ------------------------- discovery: values --------------------------- *)

\* source.type
Kinds == {"youtube", "rss", "github", "hackernews"}

\* strings are sequences of character codes
StrVideo == <<118, 105, 100, 101, 111, 58>>                  \* 'video:'
StrRss == <<114, 115, 115, 58>>                              \* 'rss:'
StrGithub == <<103, 105, 116, 104, 117, 98, 58>>             \* 'github:'
StrHn == <<104, 110, 58>>                                    \* 'hn:'
StrUndefined == <<117, 110, 100, 101, 102, 105, 110, 101, 100>>  \* 'undefined'

\* the JavaScript value undefined, where a string was expected
Undefined == <<0>>
\* `${v}` in a template literal
ToStr(v) == IF v = Undefined THEN StrUndefined ELSE v

\* the characters substring(0, 20) keeps
KeyChars == 20
\* the threshold used when source.minScore is falsy
DefaultMinScore == 70
\* markProcessed: expirationTtl, seconds
DedupTtl == 2592000

\* one character of the base64 alphabet
B64Char(n) ==
    IF n < 26 THEN 65 + n
    ELSE IF n < 52 THEN 97 + (n - 26)
    ELSE IF n < 62 THEN 48 + (n - 52)
    ELSE IF n = 62 THEN 43 ELSE 47

\* btoa(b): four characters for every three bytes, '=' padding
RECURSIVE Btoa(_)
Btoa(b) ==
    IF Len(b) = 0 THEN <<>>
    ELSE LET b1 == b[1]
             b2 == IF Len(b) >= 2 THEN b[2] ELSE 0
             b3 == IF Len(b) >= 3 THEN b[3] ELSE 0
             c1 == B64Char(b1 \div 4)
             c2 == B64Char((b1 % 4) * 16 + (b2 \div 16))
             c3 == IF Len(b) >= 2 THEN B64Char((b2 % 16) * 4 + (b3 \div 64)) ELSE 61
             c4 == IF Len(b) >= 3 THEN B64Char(b3 % 64) ELSE 61
         IN  <<c1, c2, c3, c4>> \o (IF Len(b) > 3 THEN Btoa(SubSeq(b, 4, Len(b))) ELSE <<>>)

\* s.substring(0, n)
Substring(s, n) == SubSeq(s, 1, IF Len(s) < n THEN Len(s) ELSE n)

\* keys made of the native id alone
DedupKey_Mut(kind, raw) ==
    ToStr(raw)

\* the dedup key each process* method looks up and records
DedupKey(kind, raw) ==
    CASE kind = "youtube" -> StrVideo \o ToStr(raw)
      [] kind = "rss" -> StrRss \o Substring(Btoa(raw), KeyChars)
      [] kind = "github" -> StrGithub \o raw
      [] kind = "hackernews" -> StrHn \o ToStr(raw)

\* the native ids the listings carry: '1'; two links of one site; '' for a feed
\* entry without <link>; undefined for a missing videoId
IdOne == <<49>>
SitePrefix == <<104, 116, 116, 112, 115, 58, 47, 47, 98, 108, 111, 103, 46, 99, 108>>
LinkA == SitePrefix \o <<97>>
LinkB == SitePrefix \o <<98>>
RawIds(kind) ==
    CASE kind = "youtube" -> {IdOne, Undefined}
      [] kind = "rss" -> {<<>>, LinkA, LinkB}
      [] kind = "github" -> {IdOne}
      [] kind = "hackernews" -> {IdOne}

\* the titles entries carry
Titles == {1, 2}

\* a listing entry; story: the Hacker News item is a story with score >= 100
Entries(kind) ==
    [raw : RawIds(kind), story : IF kind = "hackernews" THEN BOOLEAN ELSE {TRUE},
     title : {1}]

\* the listings of up to n entries a source of the kind can answer with
\* (releases/latest is the latest release, or a body without id when the
\* repository has none)
Listings(kind, n) ==
    UNION {[1..k -> Entries(kind)] :
              k \in (IF kind = "github" /\ n > 1 THEN 0..1 ELSE 0..n)}

\* source.minScore values in channels_config
MinScores == {0, 80}

\* the sources with a minScore of ms and up to n listing entries
SourcesOf(n, ms) ==
    UNION {[type : {k}, minScore : ms, items : Listings(k, n)] : k \in Kinds}

\* configurations of k sources holding up to n entries in all
RECURSIVE ConfigsOf(_, _, _)
ConfigsOf(k, n, ms) ==
    IF k = 0 THEN {<<>>}
    ELSE UNION {{<<src>> \o rest : rest \in ConfigsOf(k - 1, n - Len(src.items), ms)} :
                   src \in SourcesOf(n, ms)}

\* up to MaxSources sources holding up to MaxItems entries in all
Configs(ms) == UNION {ConfigsOf(k, MaxItems, ms) : k \in 1..MaxSources}

Slots == (1..MaxSources) \X (1..MaxItems)
SweepIds == 1..NumSweeps

\* texts of the oracle's answer: the text is missing, '', 'n/a', '0', '80',
\* '81', '150'
TextNa == <<110, 47, 97>>
Text0 == <<48>>
Text80 == <<56, 48>>
Text81 == <<56, 49>>
Text150 == <<49, 53, 48>>
Replies == {Undefined, <<>>, TextNa, Text0, Text80, Text81, Text150}

\* /\d/
IsDigit(c) == c \in 48..57
\* the digits s starts with
RECURSIVE LeadingDigits(_)
LeadingDigits(s) ==
    IF s = <<>> \/ ~IsDigit(Head(s)) THEN <<>>
    ELSE <<Head(s)>> \o LeadingDigits(Tail(s))
\* text.match(/\d+/)?.[0]: the first run of digits, undefined without one
RECURSIVE MatchDigits(_)
MatchDigits(s) ==
    IF s = <<>> THEN Undefined
    ELSE IF IsDigit(Head(s)) THEN LeadingDigits(s)
    ELSE MatchDigits(Tail(s))
\* parseInt of a string of digits
RECURSIVE DigitsValue(_)
DigitsValue(d) ==
    IF d = <<>> THEN 0
    ELSE DigitsValue(SubSeq(d, 1, Len(d) - 1)) * 10 + (d[Len(d)] - 48)
\* NaN, the value of parseInt(undefined)
NoDigits == -1
ParseInt(m) == IF m = Undefined THEN NoDigits ELSE DigitsValue(m)

\* a parse that returns 0 when there is nothing to parse
ParseScore_Mut(text) ==
    LET t == IF text = Undefined \/ text = <<>> THEN <<>> ELSE text
        n == ParseInt(MatchDigits(t))
    IN  IF n = NoDigits THEN 0 ELSE n

\* const text = ...?.text || '50'; return parseInt(text.match(/\d+/)?.[0]) || 50
ParseScore(text) ==
    LET t == IF text = Undefined \/ text = <<>> THEN <<53, 48>> ELSE text
        n == ParseInt(MatchDigits(t))
    IN  IF n = NoDigits \/ n = 0 THEN 50 ELSE n

\* this.results of a new DiscoveryAgent
NoResults == [counts |-> [k \in Kinds |-> 0], approved |-> 0, errors |-> <<>>]
\* text: the answer the score in hand was parsed from
SweepIdle ==
    [pc |-> "idle", src |-> 1, pos |-> 1, text |-> <<>>, score |-> 0, results |-> NoResults]

\* no discovery configured, no sweep running
NoDiscovery ==
    /\ config = <<>>
    /\ dedup = {}
    /\ sweep = [w \in SweepIds |-> SweepIdle]
    /\ lookups = {}
    /\ nScored = [sl \in Slots |-> 0]
    /\ nEmitted = [sl \in Slots |-> 0]
    /\ lastDiscovery = NoResults

\* nothing stored, no invocation running, no batch in progress
InitRest ==
    /\ store = [i \in Ids |-> Null]
    /\ proc = [p \in Procs |-> Idle]
    /\ pushes = [i \in Ids |-> 0]
    /\ batch = <<>>
    /\ bpos = 1
    /\ acks = <<>>
    /\ retries = <<>>
    /\ delays = <<>>
    /\ outcome = <<>>
    /\ kvWrites = {}
    /\ published = <<>>
    /\ resultPuts = [i \in Ids |-> NoAgents]
    /\ sends = [i \in Ids |-> [t \in StageTypes |-> 0]]
    /\ nStarts = 0
    /\ nInvokes = 0
    /\ nDeliveries = 0

\* the deployed worker: other producers may have messages waiting on its queues
Init ==
    /\ queue \in ExternalQueues
    /\ consumer \in {"worker", "stub"}
    /\ InitRest
    /\ NoDiscovery

\* the orchestrator alone: empty queues
InitMethods ==
    /\ queue = [m \in Msgs |-> 0]
    /\ consumer = "worker"
    /\ InitRest
    /\ NoDiscovery

(* ----------------------- EnhancementOrchestrator ---------------------- *)

\* start() writing a state that is already one stage on
NewState_Mut(i, inp, now) ==
    [status |-> "structuring", notionPageId |-> i, input |-> inp,
     startedAt |-> now, agents |-> NoAgents, completedAt |-> 0]

\* the JSON start() writes
NewState(i, inp, now) ==
    [status |-> "researching", notionPageId |-> i, input |-> inp,
     startedAt |-> now, agents |-> NoAgents, completedAt |-> 0]

\* start(): AGENT_STATE.put of the initial state, whatever the key holds
StartPut(p, i, inp) ==
    /\ FreeProc(p)
    /\ nStarts' = nStarts + 1
    /\ store' = [store EXCEPT ![i] = NewState(i, inp, nStarts')]
    /\ proc' = [proc EXCEPT ![p] =
                  [pc |-> "start_send", op |-> "start", id |-> i, inp |-> inp, snap |-> Null]]
    /\ UNCHANGED <<queue, pushes, kvWrites, resultPuts, sends, nInvokes>>
    /\ UNCHANGED batchVars
    /\ UNCHANGED discVars

\* start(): ENHANCEMENT_QUEUE.send({type: 'research', ...}), then the response
\* {status: 'started'}
StartSend(p) ==
    /\ proc[p].pc = "start_send"
    /\ queue' = Enqueue(queue, Msg("research", proc[p].id))
    /\ sends' = [sends EXCEPT ![proc[p].id]["research"] = @ + 1]
    /\ proc' = [proc EXCEPT ![p].pc = "started"]
    /\ UNCHANGED <<store, pushes, kvWrites, resultPuts, nStarts, nInvokes>>
    /\ UNCHANGED batchVars
    /\ UNCHANGED discVars

\* an awaited QUEUE.send rejects: the method throws
SendThrows(p) ==
    /\ proc[p].pc \in {"start_send", "send"}
    /\ proc' = [proc EXCEPT ![p].pc = "threw"]
    /\ UNCHANGED <<store, queue, pushes, kvWrites, resultPuts, sends, nStarts, nInvokes>>
    /\ UNCHANGED batchVars
    /\ UNCHANGED discVars

\* a stage method up to its first await: AGENT_STATE.get, JSON.parse, and the
\* prompt template built from the loaded state
StageRead(p, s, i) ==
    /\ FreeProc(p)
    /\ IF PromptThrows(s, store[i])
       THEN /\ proc' = [proc EXCEPT ![p] =
                          [pc |-> "threw", op |-> s, id |-> i, inp |-> 0, snap |-> store[i]]]
            /\ UNCHANGED nInvokes
       ELSE /\ proc' = [proc EXCEPT ![p] =
                          [pc |-> "gemini", op |-> s, id |-> i, inp |-> 0, snap |-> store[i]]]
            /\ nInvokes' = nInvokes + 1
    /\ UNCHANGED <<store, queue, pushes, kvWrites, resultPuts, sends, nStarts>>
    /\ UNCHANGED batchVars
    /\ UNCHANGED discVars

\* a direct call of a stage method
InvokeRead(p, s, i) ==
    /\ nInvokes < MaxInvokes
    /\ StageRead(p, s, i)

\* callGemini returns a text ('' included: it never throws on a malformed answer)
Gemini(p) ==
    /\ proc[p].pc = "gemini"
    /\ proc' = [proc EXCEPT ![p].pc = IF proc[p].op = "finalize" THEN "notion_draft" ELSE "put"]
    /\ UNCHANGED <<store, queue, pushes, kvWrites, resultPuts, sends, nStarts, nInvokes>>
    /\ UNCHANGED batchVars
    /\ UNCHANGED discVars

\* the state a stage method puts: the loaded state with its result and status set
Advanced(st, s, text) ==
    [st EXCEPT !.agents[AgentKey(s)] = text,
               !.status = StatusSet(s),
               !.completedAt = IF s = "finalize" THEN 1 ELSE @]

\* a stage that has stored its advanced state by the time the fetch rejects
FetchThrows_Mut(p) ==
    /\ proc[p].pc \in {"gemini", "notion_draft", "notion_status"}
    /\ proc' = [proc EXCEPT ![p].pc = "threw"]
    /\ store' = IF proc[p].snap = Null THEN store
                ELSE [store EXCEPT ![proc[p].id] = Advanced(proc[p].snap, proc[p].op, 1)]
    /\ UNCHANGED <<queue, pushes, kvWrites, resultPuts, sends, nStarts, nInvokes>>
    /\ UNCHANGED batchVars
    /\ UNCHANGED discVars

\* an awaited fetch rejects: the method throws
FetchThrows(p) ==
    /\ proc[p].pc \in {"gemini", "notion_draft", "notion_status"}
    /\ proc' = [proc EXCEPT ![p].pc = "threw"]
    /\ UNCHANGED <<store, queue, pushes, kvWrites, resultPuts, sends, nStarts, nInvokes>>
    /\ UNCHANGED batchVars
    /\ UNCHANGED discVars

\* runResearch/runStructure/runFactCheck: state.agents.<key> = ..., status = ...,
\* AGENT_STATE.put (state null: the assignment throws a TypeError)
StagePut(p) ==
    /\ proc[p].pc = "put"
    /\ IF proc[p].snap = Null
       THEN /\ proc' = [proc EXCEPT ![p].pc = "threw"]
            /\ UNCHANGED <<store, resultPuts>>
       ELSE /\ resultPuts' = [resultPuts EXCEPT ![proc[p].id][AgentKey(proc[p].op)] = @ + 1]
            /\ store' = [store EXCEPT ![proc[p].id] =
                           Advanced(proc[p].snap, proc[p].op,
                                    resultPuts'[proc[p].id][AgentKey(proc[p].op)])]
            /\ proc' = [proc EXCEPT ![p].pc = "send"]
    /\ UNCHANGED <<queue, pushes, kvWrites, sends, nStarts, nInvokes>>
    /\ UNCHANGED batchVars
    /\ UNCHANGED discVars

\* runResearch/runStructure/runFactCheck: ENHANCEMENT_QUEUE.send of the next type
StageSend(p) ==
    /\ proc[p].pc = "send"
    /\ queue' = Enqueue(queue, Msg(NextType(proc[p].op), proc[p].id))
    /\ sends' = [sends EXCEPT ![proc[p].id][NextType(proc[p].op)] = @ + 1]
    /\ proc' = [proc EXCEPT ![p].pc = "returned"]
    /\ UNCHANGED <<store, pushes, kvWrites, resultPuts, nStarts, nInvokes>>
    /\ UNCHANGED batchVars
    /\ UNCHANGED discVars

\* finalize: PATCH blocks/<id>/children with the draft
NotionDraft(p) ==
    /\ proc[p].pc = "notion_draft"
    /\ pushes' = [pushes EXCEPT ![proc[p].id] = @ + 1]
    /\ proc' = [proc EXCEPT ![p].pc = "notion_status"]
    /\ UNCHANGED <<store, queue, kvWrites, resultPuts, sends, nStarts, nInvokes>>
    /\ UNCHANGED batchVars
    /\ UNCHANGED discVars

\* finalize: PATCH pages/<id> with Status 'Draft Review'
NotionStatus(p) ==
    /\ proc[p].pc = "notion_status"
    /\ proc' = [proc EXCEPT ![p].pc = "final_put"]
    /\ UNCHANGED <<store, queue, pushes, kvWrites, resultPuts, sends, nStarts, nInvokes>>
    /\ UNCHANGED batchVars
    /\ UNCHANGED discVars

\* finalize: state.agents.final, status 'draft_ready', completedAt, AGENT_STATE.put
FinalPut(p) ==
    /\ proc[p].pc = "final_put"
    /\ resultPuts' = [resultPuts EXCEPT ![proc[p].id][AgentKey(proc[p].op)] = @ + 1]
    /\ store' = [store EXCEPT ![proc[p].id] =
                   Advanced(proc[p].snap, proc[p].op,
                            resultPuts'[proc[p].id][AgentKey(proc[p].op)])]
    /\ proc' = [proc EXCEPT ![p].pc = "returned"]
    /\ UNCHANGED <<queue, pushes, kvWrites, sends, nStarts, nInvokes>>
    /\ UNCHANGED batchVars
    /\ UNCHANGED discVars

\* the invocation is over: its promise has resolved or rejected
Return(p) ==
    /\ proc[p].pc \in {"started", "returned", "threw"}
    /\ proc' = [proc EXCEPT ![p] = Idle]
    /\ UNCHANGED <<store, queue, pushes, kvWrites, resultPuts, sends, nStarts, nInvokes>>
    /\ UNCHANGED batchVars
    /\ UNCHANGED discVars

(* ------------------------------ fetch ---------------------------------- *)

\* router.post('/enhance', ...): orchestrator.start(await req.json())
Enhance(p, i, inp) ==
    /\ nStarts < MaxRequests
    /\ StartPut(p, i, inp)

(* --------------------------- queue consumers -------------------------- *)

Count(b, m) == Cardinality({k \in DOMAIN b : b[k] = m})
\* the batches the runtime can form from the waiting messages
Waiting == {m \in Msgs : queue[m] > 0}
Batches == {b \in UNION {[1..n -> Waiting] : n \in 1..MaxBatch} :
              \A m \in Waiting : Count(b, m) <= queue[m]}

\* the runtime hands a batch of waiting messages to the `queue` export
Handover(b) ==
    /\ batch = <<>>
    /\ b \in Batches
    /\ queue' = [m \in Msgs |-> queue[m] - Count(b, m)]
    /\ batch' = b
    /\ bpos' = 1
    /\ acks' = [k \in DOMAIN b |-> 0]
    /\ retries' = [k \in DOMAIN b |-> 0]
    /\ delays' = [k \in DOMAIN b |-> 0]
    /\ outcome' = [k \in DOMAIN b |-> "none"]
    /\ UNCHANGED <<consumer, kvWrites, published>>
    /\ UNCHANGED orchVars
    /\ UNCHANGED discVars

\* one of the batches of a bounded run
Deliver(b) ==
    /\ nDeliveries < MaxDeliveries
    /\ nDeliveries' = nDeliveries + 1
    /\ Handover(b)

\* a batch of a run in which the queue keeps delivering
DeliverAgain(b) ==
    /\ Handover(b)
    /\ UNCHANGED nDeliveries

\* CONTENT_KV keys: publish() writes article:<slug> and social:<notionPageId>;
\* crossPost() reads article:<articleId> and social:<articleId>
ArticleBySlug(i) == <<"article", "slug", i>>
ArticleById(i) == <<"article", "id", i>>
SocialById(i) == <<"social", "id", i>>

\* the fields of the metadata object publish() builds
MetadataFields ==
    {"title", "description", "date", "slug", "category", "section", "tags", "notionPageId"}
\* if (metadata.featured): a field the object lacks is undefined
MetadataFeatured(featured) == IF "featured" \in MetadataFields THEN featured ELSE FALSE

\* publish() for page i of a request whose featured flag is f: the ways it can
\* end, each with the CONTENT_KV keys written and the crosspost messages sent
PublishRuns(i, f) ==
    {[end |-> "threw", wrote |-> {}, cross |-> 0],
     [end |-> "threw", wrote |-> {ArticleBySlug(i)}, cross |-> 0],
     [end |-> "ok", wrote |-> {ArticleBySlug(i), SocialById(i)},
      cross |-> IF MetadataFeatured(f) THEN 1 ELSE 0]}
    \cup (IF MetadataFeatured(f)
          THEN {[end |-> "threw", wrote |-> {ArticleBySlug(i), SocialById(i)}, cross |-> 0]}
          ELSE {})

\* a switch whose unmatched types fall into a throwing default
HandlerRuns_Mut(m) ==
    IF m.type \in KnownTypes /\ m.type # "publish"
    THEN {[end |-> "threw", wrote |-> {}, cross |-> 0]}
    ELSE IF m.type = "publish"
         THEN {[end |-> "ok", wrote |-> {ArticleBySlug(m.id), SocialById(m.id)}, cross |-> 0]}
         ELSE {[end |-> "threw", wrote |-> {}, cross |-> 0]}

\* what the handler of the switch case does with message m: the ways it can end,
\* each with the CONTENT_KV keys it has written by then and the crosspost
\* messages it has sent
HandlerRuns(m) ==
    CASE m.type \in StageTypes ->
           \* orchestrator.processStep(type, data)
           IF "processStep" \in OrchestratorMethods
           THEN {[end |-> "ok", wrote |-> {}, cross |-> 0]}
           ELSE {[end |-> "threw", wrote |-> {}, cross |-> 0]}
      [] m.type = "publish" ->
           \* publisher.publish(data), whatever data.featured is
           UNION {PublishRuns(m.id, f) : f \in BOOLEAN}
      [] m.type = "refresh" ->
           \* processRefresh reads data.article.title
           IF m.id = 0 THEN {[end |-> "threw", wrote |-> {}, cross |-> 0]}
                       ELSE {[end |-> "ok", wrote |-> {}, cross |-> 0]}
      [] m.type = "crosspost" ->
           \* crossPost reads article.title of the loaded article
           IF ArticleById(m.id) \in kvWrites /\ SocialById(m.id) \in kvWrites
           THEN {[end |-> "ok", wrote |-> {}, cross |-> 0],
                 [end |-> "threw", wrote |-> {}, cross |-> 0]}
           ELSE {[end |-> "threw", wrote |-> {}, cross |-> 0]}
      [] OTHER -> {[end |-> "ok", wrote |-> {}, cross |-> 0]}

\* router.post('/publish', ...): agent.publish(await req.json())
Publish(i, f) ==
    /\ Len(published) < MaxPublishes
    /\ \E run \in PublishRuns(i, f) :
         /\ kvWrites' = kvWrites \cup run.wrote
         /\ queue' = IF run.cross > 0 THEN Enqueue(queue, Msg("crosspost", i)) ELSE queue
         /\ published' = Append(published,
               [id |-> i, featured |-> f, end |-> run.end, cross |-> run.cross])
    /\ UNCHANGED <<batch, consumer, bpos, acks, retries, delays, outcome, nDeliveries>>
    /\ UNCHANGED orchVars
    /\ UNCHANGED discVars

\* a consumer that acknowledges whatever the handler did
Resolution_Mut(end) ==
    [ack |-> 1, retry |-> 0, delay |-> 0]

\* try { ...; await message.ack() } catch { await message.retry({delaySeconds: 60}) }
Resolution(end) ==
    IF end = "threw"
    THEN [ack |-> 0, retry |-> 1, delay |-> RetryDelay]
    ELSE [ack |-> 1, retry |-> 0, delay |-> 0]

\* a try/catch around the whole loop: the first throw ends the iteration
LoopNext_Mut(pos, end) ==
    IF end = "threw" THEN Len(batch) + 1 ELSE pos + 1

\* for (const message of batch.messages): the catch is inside the loop body
LoopNext(pos, end) == pos + 1

\* one iteration of the worker's loop
Dispatch ==
    /\ batch # <<>>
    /\ consumer = "worker"
    /\ bpos <= Len(batch)
    /\ \E run \in HandlerRuns(batch[bpos]) :
         LET r == Resolution(run.end) IN
         /\ kvWrites' = kvWrites \cup run.wrote
         /\ outcome' = [outcome EXCEPT ![bpos] = run.end]
         /\ acks' = [acks EXCEPT ![bpos] = @ + r.ack]
         /\ retries' = [retries EXCEPT ![bpos] = @ + r.retry]
         /\ delays' = [delays EXCEPT ![bpos] = r.delay]
         /\ queue' = LET q == IF run.cross > 0
                               THEN Enqueue(queue, Msg("crosspost", batch[bpos].id))
                               ELSE queue
                      IN  IF r.retry > 0 THEN Enqueue(q, batch[bpos]) ELSE q
         /\ bpos' = LoopNext(bpos, run.end)
    /\ UNCHANGED <<batch, consumer, nDeliveries, published>>
    /\ UNCHANGED orchVars
    /\ UNCHANGED discVars

\* one iteration of the acknowledging consumer's loop: await message.ack()
AckOnly ==
    /\ batch # <<>>
    /\ consumer = "stub"
    /\ bpos <= Len(batch)
    /\ acks' = [acks EXCEPT ![bpos] = @ + 1]
    /\ bpos' = bpos + 1
    /\ UNCHANGED <<queue, batch, consumer, retries, delays, outcome, kvWrites,
                   nDeliveries, published>>
    /\ UNCHANGED orchVars
    /\ UNCHANGED discVars

\* the `queue` export returns
BatchReturn ==
    /\ batch # <<>>
    /\ bpos > Len(batch)
    /\ batch' = <<>>
    /\ bpos' = 1
    /\ acks' = <<>>
    /\ retries' = <<>>
    /\ delays' = <<>>
    /\ outcome' = <<>>
    /\ UNCHANGED <<queue, consumer, kvWrites, nDeliveries, published>>
    /\ UNCHANGED orchVars
    /\ UNCHANGED discVars

\* the deployed program: start() behind POST /enhance, producers, the consumers
Next ==
    \/ \E p \in Procs, i \in Ids, inp \in Inputs : Enhance(p, i, inp)
    \/ \E p \in Procs : StartSend(p)
    \/ \E p \in Procs : SendThrows(p)
    \/ \E p \in Procs : Return(p)
    \/ \E b \in Batches : Deliver(b)
    \/ Dispatch
    \/ AckOnly
    \/ BatchReturn

Spec == Init /\ [][Next]_vars

\* a direct call of start()
CallStart(p, i, inp) ==
    /\ nStarts < MaxStarts
    /\ StartPut(p, i, inp)

\* the orchestrator's methods, each called with the payload of its message type
NextMethods ==
    \/ \E p \in Procs, i \in WorkflowIds, inp \in Inputs : CallStart(p, i, inp)
    \/ \E p \in Procs : StartSend(p)
    \/ \E p \in Procs : SendThrows(p)
    \/ \E p \in Procs, s \in StageTypes, i \in WorkflowIds : InvokeRead(p, s, i)
    \/ \E p \in Procs : Gemini(p)
    \/ \E p \in Procs : FetchThrows(p)
    \/ \E p \in Procs : StagePut(p)
    \/ \E p \in Procs : StageSend(p)
    \/ \E p \in Procs : NotionDraft(p)
    \/ \E p \in Procs : NotionStatus(p)
    \/ \E p \in Procs : FinalPut(p)
    \/ \E p \in Procs : Return(p)

SpecMethods == InitMethods /\ [][NextMethods]_vars

\* the deployed program with a queue that never stops delivering and with
\* sends that succeed
NextLive ==
    \/ \E p \in Procs, i \in Ids, inp \in Inputs : Enhance(p, i, inp)
    \/ \E p \in Procs : StartSend(p)
    \/ \E p \in Procs : Return(p)
    \/ \E b \in Batches : DeliverAgain(b)
    \/ Dispatch
    \/ AckOnly
    \/ BatchReturn

\* every step of a running invocation and of the consumer is eventually taken
Fairness ==
    /\ \A p \in Procs : WF_vars(StartSend(p)) /\ WF_vars(Return(p))
    /\ WF_vars(\E b \in Batches : DeliverAgain(b))
    /\ WF_vars(Dispatch)
    /\ WF_vars(AckOnly)
    /\ WF_vars(BatchReturn)

SpecLive == Init /\ [][NextLive]_vars /\ Fairness

\* the two consumers alone, over whatever messages wait on the queues
NextConsumers ==
    \/ \E b \in Batches : Deliver(b)
    \/ Dispatch
    \/ AckOnly
    \/ BatchReturn

SpecConsumers == Init /\ [][NextConsumers]_vars

\* no invocation is running
AllIdle == \A p \in Procs : proc[p].pc = "idle"

\* start() called while nothing else runs
StartInTurn(i, inp) ==
    /\ AllIdle
    /\ CallStart(1, i, inp)

\* a stage method called while nothing else runs
InvokeInTurn(s, i) ==
    /\ AllIdle
    /\ nInvokes < MaxTurns
    /\ StageRead(1, s, i)

\* the orchestrator's methods called one at a time, each after the last returned
NextSerial ==
    \/ \E i \in WorkflowIds, inp \in Inputs : StartInTurn(i, inp)
    \/ \E s \in StageTypes, i \in WorkflowIds : InvokeInTurn(s, i)
    \/ \E p \in Procs : StartSend(p)
    \/ \E p \in Procs : SendThrows(p)
    \/ \E p \in Procs : Gemini(p)
    \/ \E p \in Procs : FetchThrows(p)
    \/ \E p \in Procs : StagePut(p)
    \/ \E p \in Procs : StageSend(p)
    \/ \E p \in Procs : NotionDraft(p)
    \/ \E p \in Procs : NotionStatus(p)
    \/ \E p \in Procs : FinalPut(p)
    \/ \E p \in Procs : Return(p)

SpecSerial == InitMethods /\ [][NextSerial]_vars

\* the pipeline order of the status values
StatusOrder ==
    <<"researching", "structuring", "factchecking", "finalizing", "draft_ready">>
\* the stage whose message a status waits for
StageOrder == <<"research", "structure", "factcheck", "finalize">>

\* the state of workflow 1 once the first k - 1 stages have stored their result
WorkflowAt(k) ==
    [status |-> StatusOrder[k], notionPageId |-> 1, input |-> 1, startedAt |-> 1,
     agents |-> [key \in AgentKeys |->
                   IF \E n \in 1..(k - 1) : AgentKey(StageOrder[n]) = key THEN 1 ELSE 0],
     completedAt |-> IF k = Len(StatusOrder) THEN 1 ELSE 0]

\* workflow 1 is under way: k - 1 stages have run, the message of stage k waits
InitStages ==
    \E k \in DOMAIN StageOrder :
       /\ store = [i \in Ids |-> IF i = 1 THEN WorkflowAt(k) ELSE Null]
       /\ queue = BagOf(<<Msg(StageOrder[k], 1)>>)
       /\ resultPuts = [i \in Ids |-> IF i = 1 THEN WorkflowAt(k).agents ELSE NoAgents]
       /\ sends = [i \in Ids |-> [t \in StageTypes |->
                      IF i = 1 /\ \E n \in 1..k : StageOrder[n] = t THEN 1 ELSE 0]]
       /\ nStarts = 1
       /\ consumer = "worker"
       /\ proc = [p \in Procs |-> Idle]
       /\ pushes = [i \in Ids |-> 0]
       /\ batch = <<>>
       /\ bpos = 1
       /\ acks = <<>>
       /\ retries = <<>>
       /\ delays = <<>>
       /\ outcome = <<>>
       /\ kvWrites = {}
       /\ published = <<>>
       /\ nInvokes = 0
       /\ nDeliveries = 0
       /\ NoDiscovery

\* a stage method called with the payload of a message for workflow 1
InvokeStage(s) ==
    /\ AllIdle
    /\ nInvokes < MaxStageCalls
    /\ StageRead(1, s, 1)

\* the stage methods called one at a time on a workflow under way, and the
\* worker consuming the stage messages
NextStages ==
    \/ \E s \in StageTypes : InvokeStage(s)
    \/ \E p \in Procs : SendThrows(p)
    \/ \E p \in Procs : Gemini(p)
    \/ \E p \in Procs : FetchThrows(p)
    \/ \E p \in Procs : StagePut(p)
    \/ \E p \in Procs : StageSend(p)
    \/ \E p \in Procs : NotionDraft(p)
    \/ \E p \in Procs : NotionStatus(p)
    \/ \E p \in Procs : FinalPut(p)
    \/ \E p \in Procs : Return(p)
    \/ \E b \in Batches : Deliver(b)
    \/ Dispatch
    \/ BatchReturn

SpecStages == InitStages /\ [][NextStages]_vars

\* start() alone, called concurrently
NextStart ==
    \/ \E p \in Procs, i \in Ids, inp \in Inputs : CallStart(p, i, inp)
    \/ \E p \in Procs : StartSend(p)
    \/ \E p \in Procs : SendThrows(p)
    \/ \E p \in Procs : Return(p)

SpecStart == InitMethods /\ [][NextStart]_vars

\* POST /publish alone
NextPublish ==
    \E i \in Ids, f \in BOOLEAN : Publish(i, f)

SpecPublish == InitMethods /\ [][NextPublish]_vars

(* ------------------------- discovery: sweeps --------------------------- *)

\* everything the discovery agent does not touch
coreVars == <<orchVars, batchVars, queue, kvWrites>>

Source(w) == config[sweep[w].src]
Entry(w) == Source(w).items[sweep[w].pos]
Slot(w) == <<sweep[w].src, sweep[w].pos>>
EntryKey(w) == DedupKey(Source(w).type, Entry(w).raw)

\* a lookup that never finds a record
IsProcessed_Mut(key) ==
    FALSE

\* isProcessed(key): CONTENT_KV.get(key) !== null
IsProcessed(key) == \E r \in dedup : r.key = key
\* a markProcessed that records nothing
MarkProcessed_Mut(key, score) ==
    dedup

\* markProcessed(key, data): CONTENT_KV.put(key, ...)
MarkProcessed(key, score) == {r \in dedup : r.key # key} \cup {[key |-> key, score |-> score]}

\* score > (source.minScore || 70)
Threshold(source) == IF source.minScore = 0 THEN DefaultMinScore ELSE source.minScore
Admits(source, score) == score > Threshold(source)

\* the loop goes on: `continue`, or the end of the loop body
Continue(r, source) ==
    IF r.pos < Len(source.items)
    THEN [r EXCEPT !.pc = "lookup", !.pos = r.pos + 1]
    ELSE [r EXCEPT !.pc = "fetch", !.src = r.src + 1, !.pos = 1]

\* a try/catch around the whole loop: the first failure ends the sweep
Caught_Mut(r, msg) ==
    [r EXCEPT !.pc = "report", !.src = Len(config) + 1, !.pos = 1,
              !.results.errors = Append(@, [source |-> r.src, error |-> msg])]

\* error.message of a rejected fetch, and of a property read on undefined
FetchFailed == "fetch failed"
TypeError == "TypeError"

\* the catch of run(): results.errors.push({source, error}), then the next source
Caught(r, msg) ==
    [r EXCEPT !.pc = "fetch", !.src = r.src + 1, !.pos = 1,
              !.results.errors = Append(@, [source |-> r.src, error |-> msg])]

\* run() is called on a new DiscoveryAgent: loadConfig()
SweepStart(w) ==
    /\ sweep[w].pc = "idle"
    /\ \A v \in SweepIds : v < w => sweep[v].pc # "idle"
    /\ sweep' = [sweep EXCEPT ![w].pc = "fetch"]
    /\ UNCHANGED <<config, dedup, lookups, nScored, nEmitted, lastDiscovery>>
    /\ UNCHANGED coreVars

\* the switch of run() calls the source's process* method, which fetches the
\* listing; after the last source comes the report
FetchListing(w) ==
    /\ sweep[w].pc = "fetch"
    /\ sweep' = [sweep EXCEPT ![w] =
          IF sweep[w].src > Len(config) THEN [@ EXCEPT !.pc = "report"]
          ELSE IF Source(w).type = "github"
                  /\ (Source(w).items = <<>> \/ Entry(w).raw = Undefined)
               THEN Caught(@, TypeError)      \* release.id.toString() on undefined
          ELSE IF Source(w).items = <<>> THEN [@ EXCEPT !.src = @ + 1]
          ELSE [@ EXCEPT !.pc = "lookup"]]
    /\ UNCHANGED <<config, dedup, lookups, nScored, nEmitted, lastDiscovery>>
    /\ UNCHANGED coreVars

\* if (await this.isProcessed(key)) continue; for Hacker News then the item is
\* fetched and dropped unless it is a story with score >= 100
Lookup(w) ==
    /\ sweep[w].pc = "lookup"
    /\ lookups' = lookups \cup
          {[slot |-> Slot(w), kind |-> Source(w).type, raw |-> Entry(w).raw,
            key |-> EntryKey(w)]}
    /\ sweep' = [sweep EXCEPT ![w] =
          IF IsProcessed(EntryKey(w)) \/ ~Entry(w).story
          THEN Continue(@, Source(w))
          ELSE [@ EXCEPT !.pc = "score"]]
    /\ UNCHANGED <<config, dedup, nScored, nEmitted, lastDiscovery>>
    /\ UNCHANGED coreVars

\* scoreContent(...) returns
Score(w) ==
    /\ sweep[w].pc = "score"
    /\ \E reply \in Replies :
          sweep' = [sweep EXCEPT ![w].pc = "mark", ![w].text = reply,
                                 ![w].score = ParseScore(reply)]
    /\ nScored' = [nScored EXCEPT ![Slot(w)] = @ + 1]
    /\ UNCHANGED <<config, dedup, lookups, nEmitted, lastDiscovery>>
    /\ UNCHANGED coreVars

\* markProcessed(key, {..., score}); this.results.<kind>++; the threshold test
Mark(w) ==
    /\ sweep[w].pc = "mark"
    /\ dedup' = MarkProcessed(EntryKey(w), sweep[w].score)
    /\ sweep' = [sweep EXCEPT ![w] =
          LET r == [@ EXCEPT !.results.counts[Source(w).type] = @ + 1, !.text = <<>>]
          IN  IF Admits(Source(w), sweep[w].score)
              THEN [r EXCEPT !.pc = "emit"]
              ELSE Continue(r, Source(w))]
    /\ UNCHANGED <<config, lookups, nScored, nEmitted, lastDiscovery>>
    /\ UNCHANGED coreVars

\* writeToNotion(...): POST /v1/pages; this.results.approved++
Emit(w) ==
    /\ sweep[w].pc = "emit"
    /\ nEmitted' = [nEmitted EXCEPT ![Slot(w)] = @ + 1]
    /\ sweep' = [sweep EXCEPT ![w] =
          Continue([@ EXCEPT !.results.approved = @ + 1], Source(w))]
    /\ UNCHANGED <<config, dedup, lookups, nScored, lastDiscovery>>
    /\ UNCHANGED coreVars

\* an awaited fetch rejects (listing, oracle, page creation): the process*
\* method throws into the catch of run()
SourceFails(w) ==
    /\ sweep[w].pc \in {"fetch", "score", "emit"}
    /\ sweep[w].src <= Len(config)
    /\ sweep' = [sweep EXCEPT ![w] = Caught(@, FetchFailed)]
    /\ UNCHANGED <<config, dedup, lookups, nScored, nEmitted, lastDiscovery>>
    /\ UNCHANGED coreVars

\* a report that is stored only when no source failed
ReportStored_Mut(prev, results) ==
    IF results.errors = <<>> THEN results ELSE prev

\* the value of last_discovery after the put: results of this run
ReportStored(prev, results) == results

\* CONTENT_KV.put('last_discovery', {timestamp, results}); the response
Report(w) ==
    /\ sweep[w].pc = "report"
    /\ lastDiscovery' = ReportStored(lastDiscovery, sweep[w].results)
    /\ sweep' = [sweep EXCEPT ![w].pc = "done"]
    /\ UNCHANGED <<config, dedup, lookups, nScored, nEmitted>>
    /\ UNCHANGED coreVars

\* a configuration c and its listings; nothing recorded yet
InitWith(c) ==
    /\ queue = [m \in Msgs |-> 0]
    /\ consumer = "worker"
    /\ InitRest
    /\ config = c
    /\ dedup = {}
    /\ sweep = [w \in SweepIds |-> SweepIdle]
    /\ lookups = {}
    /\ nScored = [sl \in Slots |-> 0]
    /\ nEmitted = [sl \in Slots |-> 0]
    /\ lastDiscovery = NoResults

\* sweeps that may overlap (the scheduled trigger and the HTTP endpoint)
NextSweeps ==
    \/ \E w \in SweepIds : SweepStart(w)
    \/ \E w \in SweepIds : FetchListing(w)
    \/ \E w \in SweepIds : Lookup(w)
    \/ \E w \in SweepIds : Score(w)
    \/ \E w \in SweepIds : Mark(w)
    \/ \E w \in SweepIds : Emit(w)
    \/ \E w \in SweepIds : SourceFails(w)
    \/ \E w \in SweepIds : Report(w)

\* two sweeps over the listing of one source
InitOverlap == \E c \in ConfigsOf(1, MaxItems, MinScores) : InitWith(c)

SpecOverlap == InitOverlap /\ [][NextSweeps]_vars


\* a sweep starts only after the sweeps before it have returned
StartInTurnSweep(w) ==
    /\ \A v \in SweepIds : sweep[v].pc \in {"idle", "done"}
    /\ SweepStart(w)

\* sweeps run one after the other
NextRuns ==
    \/ \E w \in SweepIds : StartInTurnSweep(w)
    \/ \E w \in SweepIds : FetchListing(w)
    \/ \E w \in SweepIds : Lookup(w)
    \/ \E w \in SweepIds : Score(w)
    \/ \E w \in SweepIds : Mark(w)
    \/ \E w \in SweepIds : Emit(w)
    \/ \E w \in SweepIds : SourceFails(w)
    \/ \E w \in SweepIds : Report(w)

\* one source with minScore 80 and its listing
InitRuns == \E c \in ConfigsOf(1, MaxItems, {80}) : InitWith(c)

SpecRuns == InitRuns /\ [][NextRuns]_vars

\* a feed whose entries carry any of the links under any of the titles
FeedListings == [1..MaxItems -> [raw : RawIds("rss"), story : {TRUE}, title : Titles]]
InitFeed ==
    \E l \in FeedListings : InitWith(<<[type |-> "rss", minScore |-> 80, items |-> l]>>)

\* sweeps over the feed, one after the other
SpecFeed == InitFeed /\ [][NextRuns]_vars

\* native ids as strings: up to MaxIdLen characters of ':', 'g', 'h', 'r', 'v'
IdChars == {58, 103, 104, 114, 118}
IdStrings == UNION {[1..n -> IdChars] : n \in 0..MaxIdLen}

\* two sources of different kinds whose one entry has the same native id
SameIdConfigs ==
    {<<[type |-> k1, minScore |-> 80, items |-> <<[raw |-> r, story |-> TRUE, title |-> 1]>>],
       [type |-> k2, minScore |-> 80, items |-> <<[raw |-> r, story |-> TRUE, title |-> 1]>>]>> :
        <<k1, k2, r>> \in {t \in Kinds \X Kinds \X (IdStrings \cup {Undefined}) : t[1] # t[2]}}

InitKeys == \E c \in SameIdConfigs : InitWith(c)

\* one sweep
NextSweep ==
    \/ SweepStart(1)
    \/ FetchListing(1)
    \/ Lookup(1)
    \/ Score(1)
    \/ Mark(1)
    \/ Emit(1)
    \/ SourceFails(1)
    \/ Report(1)

SpecKeys == InitKeys /\ [][NextSweep]_vars

(* --------------------------- stated properties ------------------------ *)

Rank(st) == CHOOSE k \in DOMAIN StatusOrder : StatusOrder[k] = st
\* the rank of the status at which stage s is the one to run
StageRank(s) == Rank(StatusSet(s)) - 1
\* the stage results a state records
Recorded(st) == {k \in AgentKeys : st.agents[k] # 0}
\* the results of the stages that precede a status
Preceding(status) == {AgentKey(s) : s \in {t \in StageTypes : StageRank(t) < Rank(status)}}
\* invocation p takes the step
Steps(p) == proc'[p] # proc[p]
\* the worker or the acknowledging consumer handles the message at bpos
Handles == batch # <<>> /\ bpos <= Len(batch) /\ bpos' > bpos

\* C1: every change of a workflow's persisted status goes from one value of
\* researching -> structuring -> factchecking -> finalizing -> draft_ready to
\* its immediate successor: never backward, never skipping a value.
C1_StatusOnlyAdvances ==
    [][\A i \in WorkflowIds :
         (store[i] # Null /\ store'[i] # Null /\ store'[i].status # store[i].status)
            => Rank(store'[i].status) = Rank(store[i].status) + 1]_vars

\* the stage of invocation p was already behind the status it loaded
Stale(p) ==
    /\ proc[p].op \in StageTypes
    /\ proc[p].snap # Null
    /\ Rank(proc[p].snap.status) > StageRank(proc[p].op)

\* C2: a stage method run for a workflow whose status has already advanced
\* past that stage changes neither the stored state (results and status) nor
\* the queue.
C2_StaleReplayChangesNothing ==
    [][\A p \in Procs : (Stale(p) /\ Steps(p)) => (store' = store /\ queue' = queue)]_vars

\* C3: when no workflow exists for the id, start(input) stores a state with
\* status researching, that id, the given input and no stage result, and the
\* call adds exactly one message, of type research for that id, to the queue.
C3_StartCreatesWorkflow ==
    [][\A p \in Procs :
         /\ (proc[p].pc = "idle" /\ proc'[p].op = "start" /\ store[proc'[p].id] = Null)
               => /\ store'[proc'[p].id].status = "researching"
                  /\ store'[proc'[p].id].notionPageId = proc'[p].id
                  /\ store'[proc'[p].id].input = proc'[p].inp
                  /\ Recorded(store'[proc'[p].id]) = {}
         /\ (Steps(p) /\ (proc[p].op = "start" \/ proc'[p].op = "start"))
               => queue' = IF proc'[p].pc = "started"
                           THEN Enqueue(queue, Msg("research", proc[p].id))
                           ELSE queue]_vars

\* start() has returned for the first call on the id: the state is stored and
\* its research message waits on the queue
C3_Witness ==
    \E p \in Procs :
       /\ proc[p].pc = "started"
       /\ nStarts = 1
       /\ store[proc[p].id].status = "researching"
       /\ store[proc[p].id].input = proc[p].inp
       /\ Recorded(store[proc[p].id]) = {}
       /\ queue[Msg("research", proc[p].id)] = 1

\* C4: when the worker's consumer handles a message of a non-final stage type
\* for a workflow whose status is that stage's status, the status becomes the
\* next one, the stage's result is recorded, and one message of the next
\* stage's type for the workflow is added to the queue.
C4_DispatchAdvancesStage ==
    [][(/\ Handles
        /\ consumer = "worker"
        /\ batch[bpos].type \in StageTypes \ {"finalize"}
        /\ store[batch[bpos].id] # Null
        /\ Rank(store[batch[bpos].id].status) = StageRank(batch[bpos].type))
          => /\ store'[batch[bpos].id].status = StatusSet(batch[bpos].type)
             /\ AgentKey(batch[bpos].type) \in Recorded(store'[batch[bpos].id])
             /\ queue'[Msg(NextType(batch[bpos].type), batch[bpos].id)]
                  = queue[Msg(NextType(batch[bpos].type), batch[bpos].id)] + 1]_vars

\* C5: start() for an id that already has a stored state leaves that state as
\* it is, and no second research message is sent for the id.
C5_StartKeepsExistingWorkflow ==
    [][\A p \in Procs :
         (proc[p].pc = "idle" /\ proc'[p].op = "start" /\ store[proc'[p].id] # Null)
            => /\ store'[proc'[p].id] = store[proc'[p].id]
               /\ sends'[proc'[p].id]["research"] <= 1]_vars

\* C6: every message the consumer has gone past has exactly one of ack and
\* retry called on it: retry with delaySeconds 60 and no ack when its handler
\* threw, ack and no retry otherwise; a message not yet reached has neither.
C6_ExactlyOneOfAckRetry ==
    \A k \in DOMAIN batch :
       IF k < bpos
       THEN /\ acks[k] + retries[k] = 1
            /\ outcome[k] = "threw" => (retries[k] = 1 /\ delays[k] = RetryDelay)
            /\ outcome[k] # "threw" => (acks[k] = 1 /\ delays[k] = 0)
       ELSE acks[k] = 0 /\ retries[k] = 0

\* a batch is done with one message acknowledged and the next one retried
C6_Witness ==
    /\ Len(batch) = 2
    /\ bpos > Len(batch)
    /\ outcome[1] = "ok" /\ acks[1] = 1 /\ retries[1] = 0
    /\ outcome[2] = "threw" /\ acks[2] = 0 /\ retries[2] = 1 /\ delays[2] = RetryDelay

\* C7: the worker's consumer never leaves its loop early: every message it has
\* gone past, whatever happened to its siblings, was given to its handler and
\* was acknowledged if that handler returned and retried if it threw.
C7_FailureDoesNotStopSiblings ==
    (consumer = "worker" /\ batch # <<>>) =>
       /\ bpos <= Len(batch) + 1
       /\ \A k \in DOMAIN batch :
            k < bpos => /\ outcome[k] \in {"ok", "threw"}
                        /\ acks[k] = (IF outcome[k] = "ok" THEN 1 ELSE 0)
                        /\ retries[k] = 1 - acks[k]

\* the first message's handler threw, the second was still handled and acked
C7_Witness ==
    /\ consumer = "worker"
    /\ Len(batch) = 2
    /\ bpos = 3
    /\ outcome[1] = "threw" /\ retries[1] = 1
    /\ outcome[2] = "ok" /\ acks[2] = 1

\* C8: handling a message whose type is none of research, structure,
\* factcheck, finalize, publish, refresh, crosspost acknowledges it, does not
\* retry it, and changes neither key/value store nor any queue.
C8_UnknownTypeAckedOnly ==
    [][(Handles /\ batch[bpos].type \notin KnownTypes)
          => /\ acks'[bpos] = 1
             /\ retries'[bpos] = 0
             /\ store' = store
             /\ kvWrites' = kvWrites
             /\ queue' = queue]_vars

\* the worker has handled a message of an unknown type
C8_Witness ==
    /\ consumer = "worker"
    /\ \E k \in DOMAIN batch :
          /\ k < bpos
          /\ batch[k].type \notin KnownTypes
          /\ outcome[k] = "ok"
          /\ acks[k] = 1

\* C9: a step of a stage invocation that loaded the workflow while its status
\* was the status of its stage never removes a stage result that is stored.
C9_NoResultLost ==
    [][\A p \in Procs :
         (/\ Steps(p)
          /\ proc[p].op \in StageTypes
          /\ proc[p].snap # Null
          /\ Rank(proc[p].snap.status) = StageRank(proc[p].op)
          /\ store[proc[p].id] # Null)
            => Recorded(store[proc[p].id]) \subseteq Recorded(store'[proc[p].id])]_vars

\* C10: in every stored state the recorded stage results are exactly those of
\* the stages that precede its status.
C10_ResultsMatchStatus ==
    \A i \in WorkflowIds : store[i] # Null => Recorded(store[i]) = Preceding(store[i].status)

\* C11: in every stored state completedAt is set if and only if the status is
\* draft_ready.
C11_CompletedAtOnlyWhenDone ==
    \A i \in WorkflowIds :
       store[i] # Null => (store[i].completedAt # 0 <=> store[i].status = "draft_ready")

\* the stage of invocation p is still ahead of the status it loaded
Early(p) ==
    /\ proc[p].op \in StageTypes
    /\ proc[p].snap # Null
    /\ Rank(proc[p].snap.status) < StageRank(proc[p].op)

\* C13: a stage method run for a workflow whose status is earlier than that
\* stage changes neither the stored state nor the queue.
C13_EarlyMessageChangesNothing ==
    [][\A p \in Procs : (Early(p) /\ Steps(p)) => (store' = store /\ queue' = queue)]_vars

\* C12: with a fair consumer, a queue that redelivers what is retried and calls
\* that succeed, every workflow start() has created eventually has status
\* draft_ready.
C12_WorkflowCompletes ==
    \A i \in Ids : (store[i] # Null) ~> (store[i] # Null /\ store[i].status = "draft_ready")

\* C14: a stage message whose stage is not the one the workflow's stored
\* status calls for is acknowledged by the consumer and not retried.
C14_MismatchAckedNotRetried ==
    [][(/\ Handles
        /\ batch[bpos].type \in StageTypes
        /\ store[batch[bpos].id] # Null
        /\ Rank(store[batch[bpos].id].status) # StageRank(batch[bpos].type))
          => (acks'[bpos] = 1 /\ retries'[bpos] = 0)]_vars

\* C15: a call of start() whose payload has no notionPageId writes nothing to
\* the workflow store and sends nothing to the queue.
C15_StartWithoutIdRejected ==
    [][\A p \in Procs :
         (/\ Steps(p)
          /\ \/ proc[p].pc = "idle" /\ proc'[p].op = "start" /\ proc'[p].id = 0
             \/ proc[p].op = "start" /\ proc[p].id = 0)
            => (store' = store /\ queue' = queue)]_vars

C17_OverlapScoresOnce ==
    \A sl \in Slots : nScored[sl] <= 1 /\ nEmitted[sl] <= 1

\* C18: two candidates of different source kinds with the same native id are
\* looked up (and so recorded) under different dedup keys.
C18_KindsNeverCollide ==
    \A a \in lookups, b \in lookups :
       (a.kind # b.kind /\ a.raw = b.raw) => a.key # b.key

\* the same native id has been looked up for two source kinds
C18_Witness ==
    \E a \in lookups, b \in lookups :
       /\ a.kind # b.kind
       /\ a.raw = b.raw
       /\ a.raw # Undefined
       /\ IsProcessed(a.key)

\* the entry carries no native id: no videoId, no <link>
MissingId(raw) == raw = Undefined \/ raw = <<>>

\* C19: two different entries of one source's listing, with different native
\* ids or without one, are never looked up under the same dedup key.
C19_DistinctEntriesDistinctKeys ==
    \A a \in lookups, b \in lookups :
       (/\ a.slot # b.slot
        /\ a.slot[1] = b.slot[1]
        /\ (a.raw # b.raw \/ MissingId(a.raw)))
          => a.key # b.key

\* C20: an entry is sent to review (and then counted as approved) exactly when
\* its score is greater than the source's configured minScore.
C20_AdmittedIffAboveMinScore ==
    [][\A w \in SweepIds :
         /\ (sweep[w].pc = "mark" /\ sweep'[w] # sweep[w])
               => (sweep'[w].pc = "emit" <=> sweep[w].score > Source(w).minScore)
         /\ (sweep[w].pc = "emit" /\ sweep'[w].results.approved # sweep[w].results.approved)
               => (nEmitted'[Slot(w)] = nEmitted[Slot(w)] + 1
                   /\ sweep'[w].results.approved = sweep[w].results.approved + 1)]_vars
MatchIsNull(text) == text = Undefined \/ MatchDigits(text) = Undefined

\* C21: an oracle answer whose text is missing, empty or without any digit
\* makes scoreContent return 50 (and return, not throw).
C21_NoDigitsScoresFifty ==
    \A w \in SweepIds :
       (sweep[w].pc = "mark" /\ MatchIsNull(sweep[w].text)) => sweep[w].score = 50

\* an entry was recorded with score 50, and scoreContent has returned 50 for
\* the answer 'n/a' on a later entry
C21_Witness ==
    /\ sweep[1].pc = "mark"
    /\ sweep[1].text = TextNa
    /\ sweep[1].score = 50
    /\ \E r \in dedup : r.score = 50

\* C22: the score scoreContent returns, and the score stored in the dedup
\* record, lies in 0..100.
C22_ScoreInRange ==
    /\ \A w \in SweepIds : sweep[w].pc = "mark" => sweep[w].score \in 0..100
    /\ \A r \in dedup : r.score \in 0..100

\* the sources whose failure the sweep's report lists
Failed(w) == {sweep[w].results.errors[k].source : k \in DOMAIN sweep[w].results.errors}
\* every listing entry of source s has been looked up
Processed(s) ==
    \A pos \in DOMAIN config[s].items : \E l \in lookups : l.slot = <<s, pos>>

\* C23: when a sweep over several sources reaches its report, every configured
\* source has either been processed to the end of its listing or is listed
\* once in the report's errors; a failure of one source leaves the others
\* processed, and the returned report is the one with the errors.
C23_FailureDoesNotAbortSweep ==
    \A w \in SweepIds :
       /\ sweep[w].pc \in {"report", "done"} =>
             /\ \A s \in DOMAIN config : s \in Failed(w) \/ Processed(s)
             /\ Cardinality(Failed(w)) = Len(sweep[w].results.errors)
       /\ sweep[w].pc = "done" => lastDiscovery.errors = sweep[w].results.errors

\* the first source failed, the second was looked up, and the sweep returned a
\* report that lists the first source alone
C23_Witness ==
    /\ sweep[1].pc = "done"
    /\ Failed(1) = {1}
    /\ Len(config) = 2
    /\ Processed(2)
    /\ \E r \in dedup : r.key = DedupKey(config[2].type, config[2].items[1].raw)

\* C24: once the sweeps so far have returned, none with an error, every entry
\* they fetched and looked up has a dedup record.
C24_EveryFetchedEntryRecorded ==
    (\A w \in SweepIds : sweep[w].pc \in {"idle", "done"} /\ sweep[w].results.errors = <<>>)
       => \A l \in lookups : IsProcessed(l.key)

\* two entries of the feed that share the link and differ in the title
SameLink(a, b) ==
    /\ a < b
    /\ config[1].items[a].raw = config[1].items[b].raw
    /\ config[1].items[a].title # config[1].items[b].title

\* C25: of two feed entries with the same link and different titles the first
\* alone is scored, at most once, the second is skipped, and their key holds
\* one dedup record.
C25_SameLinkScoredOnce ==
    \A a \in DOMAIN config[1].items, b \in DOMAIN config[1].items :
       SameLink(a, b) =>
          /\ nScored[<<1, a>>] <= 1
          /\ nScored[<<1, b>>] = 0
          /\ Cardinality({r \in dedup :
                 r.key = DedupKey("rss", config[1].items[a].raw)}) <= 1

\* a sweep has scored the first of two such entries, recorded it, looked the
\* second up and returned
C25_Witness ==
    /\ SameLink(1, 2)
    /\ config[1].items[1].raw = LinkA
    /\ sweep[1].pc = "done"
    /\ nScored[<<1, 1>>] = 1
    /\ nScored[<<1, 2>>] = 0
    /\ \E l \in lookups : l.slot = <<1, 2>>
    /\ IsProcessed(DedupKey("rss", LinkA))
    /\ sweep[1].results.counts["rss"] = 1

\* C26: a source whose listing holds no entry gets no entry in errors (other
\* than for a fetch that was rejected), and a sweep over empty listings leaves
\* every counter at 0.
C26_EmptyListingIsNoError ==
    \A w \in SweepIds :
       /\ \A k \in DOMAIN sweep[w].results.errors :
             LET err == sweep[w].results.errors[k]
             IN  config[err.source].items = <<>> => err.error = FetchFailed
       /\ (\A s \in DOMAIN config : config[s].items = <<>>)
             => /\ sweep[w].results.approved = 0
                /\ \A kind \in Kinds : sweep[w].results.counts[kind] = 0

\* C27: when a sweep completes, last_discovery holds the report of that sweep,
\* counters and errors, whether or not a source failed in it.
C27_LastDiscoveryIsThisRun ==
    [][\A w \in SweepIds :
         (sweep[w].pc # "done" /\ sweep'[w].pc = "done")
            => /\ lastDiscovery' = sweep'[w].results
               /\ sweep'[w].results = sweep[w].results]_vars

\* a sweep without errors stored its report, and the report of a later sweep
\* in which the source failed has replaced it
C27_Witness ==
    /\ sweep[1].pc = "done"
    /\ sweep[1].results.errors = <<>>
    /\ sweep[1].results.counts["rss"] > 0
    /\ sweep[2].pc = "done"
    /\ sweep[2].results.errors # <<>>
    /\ lastDiscovery = sweep[2].results
    /\ lastDiscovery # sweep[1].results

\* C28: for every entry a sweep has approved (sent to review and counted),
\* a research message has been enqueued.
C28_ApprovedItemEnqueued ==
    \A w \in SweepIds :
       sweep[w].results.approved > 0
          => \E i \in Ids : queue[Msg("research", i)] > 0 \/ sends[i]["research"] > 0

\* C29: a publish() that returns for a featured item has sent exactly one
\* crosspost message for it, and one that returns for another item has sent
\* none; the publishing queue holds what was sent.
C29_FeaturedIsCrossposted ==
    /\ \A k \in DOMAIN published :
          published[k].end = "ok"
             => published[k].cross = (IF published[k].featured THEN 1 ELSE 0)
    /\ \A i \in Ids :
          queue[Msg("crosspost", i)] =
             Cardinality({k \in DOMAIN published :
                published[k].id = i /\ published[k].end = "ok" /\ published[k].featured})

\* C30: no step changes the input fields or startedAt of a workflow state that
\* exists before and after it.
C30_InputAndStartedAtFrozen ==
    [][\A i \in Ids :
         (store[i] # Null /\ store'[i] # Null)
            => /\ store'[i].input = store[i].input
               /\ store'[i].startedAt = store[i].startedAt
               /\ store'[i].notionPageId = store[i].notionPageId]_vars

\* invocation p of a stage method is at an awaited call that precedes its put
BeforePut(p) ==
    /\ proc[p].op \in StageTypes
    /\ proc[p].pc \in {"gemini", "notion_draft", "notion_status"}

\* C31: when the generative call or a workspace call of a stage throws, the
\* stored state is the one the stage loaded and the throwing step changes
\* neither the store nor the queue; and when the handler of a stage message
\* throws, the worker changes no stored state, enqueues no other message and
\* requests retry of that message, without acknowledging it.
C31_FailedStageLeavesStateAndRetries ==
    [][/\ \A p \in Procs :
            (BeforePut(p) /\ proc'[p].pc = "threw")
               => /\ store' = store
                  /\ store[proc[p].id] = proc[p].snap
                  /\ queue' = queue
                  /\ sends' = sends
       /\ (/\ Handles
           /\ batch[bpos].type \in StageTypes
           /\ outcome'[bpos] = "threw")
             => /\ store' = store
                /\ retries'[bpos] = 1
                /\ acks'[bpos] = 0
                /\ queue' = Enqueue(queue, batch[bpos])]_vars

\* the second workspace call of finalize has thrown with the workflow still at
\* finalizing, and the worker has requested retry of a stage message
C31_Witness ==
    /\ proc[1].pc = "threw"
    /\ proc[1].op = "finalize"
    /\ proc[1].snap = WorkflowAt(4)
    /\ store[1] = WorkflowAt(4)
    /\ pushes[1] = 1
    /\ batch # <<>>
    /\ batch[1].type = "finalize"
    /\ retries[1] = 1
    /\ acks[1] = 0

\* the results of the stages that come before stage s
ResultsBefore(s) == {AgentKey(t) : t \in {u \in StageTypes : StageRank(u) < StageRank(s)}}

\* C32: while a message of stage s for a workflow waits in the queue, the
\* stored state of the workflow exists and holds the result of every stage
\* before s.
C32_PendingMessageHasResults ==
    \A i \in WorkflowIds, s \in StageTypes :
       queue[Msg(s, i)] > 0
          => (store[i] # Null /\ ResultsBefore(s) \subseteq Recorded(store[i]))

\* C33: the draft of a workflow is pushed to the workspace page at most once,
\* and a workflow whose stored status is draft_ready has had its draft pushed.
C33_DraftPushedOnce ==
    \A i \in WorkflowIds :
       /\ pushes[i] <= 1
       /\ (store[i] # Null /\ store[i].status = "draft_ready") => pushes[i] >= 1

\* C34: when the worker handles a stage message for an id without a stored
\* state, no state is created, nothing is enqueued, and the message is not
\* retried.
C34_MissingWorkflowIsNotRetried ==
    [][(/\ Handles
        /\ consumer = "worker"
        /\ batch[bpos].type \in StageTypes
        /\ store[batch[bpos].id] = Null)
          => /\ store' = store
             /\ queue' = queue
             /\ retries'[bpos] = 0]_vars

\* C35: two entries of a feed whose links differ are looked up under different
\* dedup keys, and once a sweep has gone through the feed without an error
\* each of them has been scored.
C35_DifferentLinksDifferentKeys ==
    \A a \in DOMAIN config[1].items, b \in DOMAIN config[1].items :
       config[1].items[a].raw # config[1].items[b].raw
          => /\ \A la \in lookups, lb \in lookups :
                   (la.slot = <<1, a>> /\ lb.slot = <<1, b>>) => la.key # lb.key
             /\ (sweep[1].pc = "done" /\ sweep[1].results.errors = <<>>)
                   => (nScored[<<1, a>>] >= 1 /\ nScored[<<1, b>>] >= 1)

\* no sweep is running
Quiet == \A w \in SweepIds : sweep[w].pc \in {"idle", "done"}

\* C36: once the sweeps have returned, every dedup record whose score is above
\* the threshold of its source belongs to an entry that was sent to review.
C36_RecordedAboveThresholdWasEmitted ==
    Quiet =>
       \A sl \in Slots :
          (/\ sl[1] \in DOMAIN config
           /\ sl[2] \in DOMAIN config[sl[1]].items
           /\ \E r \in dedup :
                 /\ r.key = DedupKey(config[sl[1]].type, config[sl[1]].items[sl[2]].raw)
                 /\ Admits(config[sl[1]], r.score))
             => \E other \in Slots :
                   /\ other[1] = sl[1]
                   /\ other[2] \in DOMAIN config[sl[1]].items
                   /\ DedupKey(config[sl[1]].type, config[sl[1]].items[other[2]].raw)
                        = DedupKey(config[sl[1]].type, config[sl[1]].items[sl[2]].raw)
                   /\ nEmitted[other] >= 1

\* C37: when the worker handles a crosspost message for an article that
\* publish() has stored with its social posts, the two keys crossPost reads
\* hold those records.
C37_CrossPostFindsPublishedArticle ==
    [][(/\ Handles
        /\ consumer = "worker"
        /\ batch[bpos].type = "crosspost"
        /\ ArticleBySlug(batch[bpos].id) \in kvWrites
        /\ SocialById(batch[bpos].id) \in kvWrites)
          => /\ ArticleById(batch[bpos].id) \in kvWrites
             /\ SocialById(batch[bpos].id) \in kvWrites]_vars

\* a stage message for workflow i waits in the queue or in the batch in hand
Pending(i) ==
    \E s \in StageTypes :
       \/ queue[Msg(s, i)] > 0
       \/ \E k \in DOMAIN batch : k >= bpos /\ batch[k] = Msg(s, i)

\* an invocation for workflow i has put its state and is about to send
AboutToSend(i) == \E p \in Procs : proc[p].id = i /\ proc[p].pc \in {"start_send", "send"}

\* C38: every stored workflow whose status is not draft_ready has a stage
\* message pending, or an invocation that is about to send one.
C38_NoWorkflowStranded ==
    \A i \in Ids :
       (store[i] # Null /\ store[i].status # "draft_ready")
          => (Pending(i) \/ AboutToSend(i))
====
